---------------------------- MODULE Spec2Model ----------------------------
(***************************************************************************)
(* A model of the loan management system's calculation and posting core:   *)
(* the amortization engine (calculateEMISchedule), the penalty function    *)
(* (calculatePenalty) and the storage layer's loan, payment, penalty       *)
(* accrual and ledger operations (DatabaseStorage), the latter both as     *)
(* whole calls made one after another (Spec) and statement by statement    *)
(* with the calls of several requests interleaved (SpecRequests).          *)
(*                                                                         *)
(* Numbers.  JavaScript numbers are modelled as exact rationals <<n, d>>   *)
(* with d > 0, kept in lowest terms; Math.round, Math.floor and Math.max   *)
(* are computed on them as JavaScript computes them.  Columns declared     *)
(* decimal(12, 2) hold integers counted in hundredths of a currency unit   *)
(* (paise), and a value written to such a column is rounded to two         *)
(* decimals the way PostgreSQL rounds a numeric (half away from zero).     *)
(* Dates are civil dates <<year, month, day>>; all clock arithmetic is in  *)
(* UTC, the zone new Date("YYYY-MM-DD") parses in.                         *)
(***************************************************************************)
EXTENDS Integers, Sequences, FiniteSets, TLC

(***************************************************************************)
(* Bounds of the model.                                                    *)
(***************************************************************************)
MaxTenure == 4
MaxPrincipal == 12

(***************************************************************************)
(* Rational arithmetic.                                                    *)
(***************************************************************************)
Abs(x) == IF x < 0 THEN -x ELSE x

RECURSIVE GCD(_, _)
GCD(a, b) == IF b = 0 THEN a ELSE GCD(b, a % b)

RNorm(n, d) ==
    IF n = 0 THEN <<0, 1>>
    ELSE LET g == GCD(Abs(n), d) IN <<n \div g, d \div g>>

RInt(n) == <<n, 1>>

RAdd(a, b) ==
    LET g == GCD(a[2], b[2])
        l == (a[2] \div g) * b[2]
    IN RNorm(a[1] * (l \div a[2]) + b[1] * (l \div b[2]), l)

RNeg(a) == <<-a[1], a[2]>>

RSub(a, b) == RAdd(a, RNeg(b))

RMul(a, b) ==
    IF a[1] = 0 \/ b[1] = 0 THEN <<0, 1>>
    ELSE LET g1 == GCD(Abs(a[1]), b[2])
             g2 == GCD(Abs(b[1]), a[2])
         IN RNorm((a[1] \div g1) * (b[1] \div g2), (a[2] \div g2) * (b[2] \div g1))

\* 1 / a, for a # 0
RInv(a) == IF a[1] < 0 THEN <<-a[2], -a[1]>> ELSE <<a[2], a[1]>>

RDiv(a, b) == RMul(a, RInv(b))

RECURSIVE RPow(_, _)
RPow(a, n) == IF n <= 0 THEN <<1, 1>> ELSE RMul(a, RPow(a, n - 1))

RLess(a, b) == RSub(a, b)[1] < 0

RFloor(a) == a[1] \div a[2]

\* Math.max(0, a)
RMax0(a) == IF a[1] < 0 THEN <<0, 1>> ELSE a

\* Math.round: the nearest integer, a tie going up (towards +infinity)
MathRound(a) == RFloor(RAdd(a, <<1, 2>>))

\* PostgreSQL's rounding of a numeric to an integer count of hundredths:
\* the nearest, a tie going away from zero.  a is in hundredths.
NumericRound(a) ==
    IF a[1] < 0 THEN -RFloor(RAdd(RNeg(a), <<1, 2>>))
    ELSE RFloor(RAdd(a, <<1, 2>>))

\* parseFloat of a decimal(12, 2) column holding p hundredths
ParseFloat(p) == RNorm(p, 100)

(***************************************************************************)
(* Calendar arithmetic (the proleptic Gregorian calendar of Date, UTC).    *)
(***************************************************************************)
IsLeap(y) == (y % 4 = 0 /\ y % 100 # 0) \/ y % 400 = 0

DaysInMonth(y, m) ==
    IF m = 2 THEN (IF IsLeap(y) THEN 29 ELSE 28)
    ELSE IF m \in {4, 6, 9, 11} THEN 30 ELSE 31

RECURSIVE DaysBeforeMonth(_, _)
DaysBeforeMonth(y, m) ==
    IF m <= 1 THEN 0 ELSE DaysBeforeMonth(y, m - 1) + DaysInMonth(y, m - 1)

\* days from 0001-01-01 to the first of January of year y
DaysBeforeYear(y) ==
    LET p == y - 1 IN 365 * p + p \div 4 - p \div 100 + p \div 400

\* the day count of a civil date; equal dates have equal counts and the
\* ISO string order of two dates is the order of their counts
DayNumber(date) ==
    DaysBeforeYear(date[1]) + DaysBeforeMonth(date[1], date[2]) + date[3] - 1

\* Date normalisation of (year, 0-based month index that may exceed 11,
\* day of month that may exceed the month's length by up to its own value):
\* the month index carries into the year, then the day carries forward.
MakeDate(y, m0, d) ==
    LET y2 == y + m0 \div 12
        m2 == (m0 % 12) + 1
        dim == DaysInMonth(y2, m2)
    IN IF d <= dim THEN <<y2, m2, d>>
       ELSE IF m2 = 12 THEN <<y2 + 1, 1, d - dim>>
       ELSE <<y2, m2 + 1, d - dim>>

\* d = new Date(start); d.setMonth(d.getMonth() + k); d.toISOString().split('T')[0]
SetMonthPlus(start, k) == MakeDate(start[1], (start[2] - 1) + k, start[3])

(***************************************************************************)
(* The amortization engine.                                                *)
(***************************************************************************)
\* calculateReducingBalanceEMI with the zero-rate formula at every rate
calculateReducingBalanceEMINoInterest(principal, monthlyRate, tenure) ==
    RDiv(principal, RInt(tenure))

calculateReducingBalanceEMI(principal, monthlyRate, tenure) ==
    IF monthlyRate[1] = 0 THEN RDiv(principal, RInt(tenure))
    ELSE LET pow == RPow(RAdd(RInt(1), monthlyRate), tenure)
         IN RDiv(RMul(RMul(principal, monthlyRate), pow), RSub(pow, RInt(1)))

\* outstandingPrincipal after installments 1..i of the reducing loop
RECURSIVE ReducingOutstanding(_, _, _, _)
ReducingOutstanding(principal, monthlyRate, emi, i) ==
    IF i = 0 THEN principal
    ELSE LET prev == ReducingOutstanding(principal, monthlyRate, emi, i - 1)
             interestAmount == RMul(prev, monthlyRate)
             principalAmount == RSub(emi, interestAmount)
         IN RSub(prev, principalAmount)

\* DueDate with the loop index dropped from the month offset
DueDateSameMonth(startDate, frequency, i) == SetMonthPlus(startDate, 1)

\* the due date the loop gives installment i (1-based); the frequency is
\* read from the parameters but never used
DueDate(startDate, frequency, i) == SetMonthPlus(startDate, i)

\* FlatItem with the principal share truncated instead of rounded
FlatItemFloor(p, i) ==
    LET principal == ParseFloat(p.principal)
        totalInterest == RDiv(RMul(principal, RInt(p.interestRate * p.tenure)), RInt(1200))
        emiAmount == RDiv(RAdd(principal, totalInterest), RInt(p.tenure))
        interestPerEmi == RDiv(totalInterest, RInt(p.tenure))
        principalPerEmi == RDiv(principal, RInt(p.tenure))
        outstandingPrincipal == RSub(principal, RMul(RInt(i), principalPerEmi))
    IN [installmentNumber |-> i,
        dueDate |-> DueDate(p.startDate, p.frequency, i),
        emiAmount |-> MathRound(emiAmount),
        principalAmount |-> RFloor(principalPerEmi),
        interestAmount |-> MathRound(interestPerEmi),
        outstandingBalance |-> MathRound(RMax0(outstandingPrincipal))]

\* FlatItem with the EMI taken as the sum of its two rounded components
FlatItemSummedEmi(p, i) ==
    LET principal == ParseFloat(p.principal)
        totalInterest == RDiv(RMul(principal, RInt(p.interestRate * p.tenure)), RInt(1200))
        interestPerEmi == RDiv(totalInterest, RInt(p.tenure))
        principalPerEmi == RDiv(principal, RInt(p.tenure))
        outstandingPrincipal == RSub(principal, RMul(RInt(i), principalPerEmi))
    IN [installmentNumber |-> i,
        dueDate |-> DueDate(p.startDate, p.frequency, i),
        emiAmount |-> MathRound(principalPerEmi) + MathRound(interestPerEmi),
        principalAmount |-> MathRound(principalPerEmi),
        interestAmount |-> MathRound(interestPerEmi),
        outstandingBalance |-> MathRound(RMax0(outstandingPrincipal))]

\* FlatItem with the balance taken before the installment's principal is
\* subtracted
FlatItemBalanceBefore(p, i) ==
    LET principal == ParseFloat(p.principal)
        totalInterest == RDiv(RMul(principal, RInt(p.interestRate * p.tenure)), RInt(1200))
        emiAmount == RDiv(RAdd(principal, totalInterest), RInt(p.tenure))
        interestPerEmi == RDiv(totalInterest, RInt(p.tenure))
        principalPerEmi == RDiv(principal, RInt(p.tenure))
        outstandingPrincipal == RSub(principal, RMul(RInt(i - 1), principalPerEmi))
    IN [installmentNumber |-> i,
        dueDate |-> DueDate(p.startDate, p.frequency, i),
        emiAmount |-> MathRound(emiAmount),
        principalAmount |-> MathRound(principalPerEmi),
        interestAmount |-> MathRound(interestPerEmi),
        outstandingBalance |-> MathRound(RMax0(outstandingPrincipal))]

FlatItem(p, i) ==
    LET principal == ParseFloat(p.principal)
        totalInterest == RDiv(RMul(principal, RInt(p.interestRate * p.tenure)), RInt(1200))
        emiAmount == RDiv(RAdd(principal, totalInterest), RInt(p.tenure))
        interestPerEmi == RDiv(totalInterest, RInt(p.tenure))
        principalPerEmi == RDiv(principal, RInt(p.tenure))
        outstandingPrincipal == RSub(principal, RMul(RInt(i), principalPerEmi))
    IN [installmentNumber |-> i,
        dueDate |-> DueDate(p.startDate, p.frequency, i),
        emiAmount |-> MathRound(emiAmount),
        principalAmount |-> MathRound(principalPerEmi),
        interestAmount |-> MathRound(interestPerEmi),
        outstandingBalance |-> MathRound(RMax0(outstandingPrincipal))]

ReducingItem(p, i) ==
    LET principal == ParseFloat(p.principal)
        monthlyRate == RNorm(p.interestRate, 1200)
        emiAmount == calculateReducingBalanceEMI(principal, monthlyRate, p.tenure)
        before == ReducingOutstanding(principal, monthlyRate, emiAmount, i - 1)
        interestAmount == RMul(before, monthlyRate)
        principalAmount == RSub(emiAmount, interestAmount)
        outstandingPrincipal == RSub(before, principalAmount)
    IN [installmentNumber |-> i,
        dueDate |-> DueDate(p.startDate, p.frequency, i),
        emiAmount |-> MathRound(emiAmount),
        principalAmount |-> MathRound(principalAmount),
        interestAmount |-> MathRound(interestAmount),
        outstandingBalance |-> MathRound(RMax0(outstandingPrincipal))]

\* The schedule returned for parameters p.  The function validates nothing:
\* a tenure below 1 runs the loop zero times (the divisions by the tenure
\* before the loop yield Infinity or NaN, which nothing then reads), any
\* interest type other than 'flat' takes the reducing branch.
calculateEMISchedule(p) ==
    IF p.tenure <= 0 THEN << >>
    ELSE IF p.interestType = "flat"
         THEN [i \in 1..p.tenure |-> FlatItem(p, i)]
         ELSE [i \in 1..p.tenure |-> ReducingItem(p, i)]

(***************************************************************************)
(* The penalty function.  The clock (new Date()) is the argument now, an   *)
(* instant counted in hours; a date is the instant of its UTC midnight.    *)
(***************************************************************************)
HoursPerDay == 24

\* new Date(date).getTime()
TimeOfDate(date) == DayNumber(date) * HoursPerDay

\* the civil day an instant falls on, as a day count
DayOfTime(t) == t \div HoursPerDay

\* calculatePenalty counting a started day as a whole one
calculatePenaltyCeil(emiAmount, dueDate, gracePeriod, penaltyRate, now) ==
    LET gracePeriodEnd == (DayNumber(dueDate) + gracePeriod) * HoursPerDay
    IN IF now <= gracePeriodEnd THEN 0
       ELSE LET overdueDays == (now - gracePeriodEnd + HoursPerDay - 1) \div HoursPerDay
                penalty == RDiv(RMul(emiAmount, RInt(penaltyRate * overdueDays)), RInt(100))
            IN MathRound(penalty)

\* calculatePenalty counting the overdue days from the due date
calculatePenaltyFromDue(emiAmount, dueDate, gracePeriod, penaltyRate, now) ==
    LET gracePeriodEnd == (DayNumber(dueDate) + gracePeriod) * HoursPerDay
    IN IF now <= gracePeriodEnd THEN 0
       ELSE LET overdueDays == (now - TimeOfDate(dueDate)) \div HoursPerDay
                penalty == RDiv(RMul(emiAmount, RInt(penaltyRate * overdueDays)), RInt(100))
            IN MathRound(penalty)

\* calculatePenalty, with the instant new Date() returns as the argument now
calculatePenalty(emiAmount, dueDate, gracePeriod, penaltyRate, now) ==
    LET gracePeriodEnd == (DayNumber(dueDate) + gracePeriod) * HoursPerDay
    IN IF now <= gracePeriodEnd THEN 0
       ELSE LET overdueDays == (now - gracePeriodEnd) \div HoursPerDay
                penalty == RDiv(RMul(emiAmount, RInt(penaltyRate * overdueDays)), RInt(100))
            IN MathRound(penalty)

(***************************************************************************)
(* State.                                                                  *)
(***************************************************************************)
VARIABLES
    calcParams,   \* the argument of a call of calculateEMISchedule
    calcResult,   \* how the call ended, and the schedule it returned
    penInput,     \* the installment calculatePenalty is called on
    now,          \* the clock, in hours
    penalty,      \* the last value calculatePenalty returned, and when
    loans,              \* table loans, row id = index
    emiSchedule,        \* table emi_schedule, row id = index
    payments,           \* table payments, row id = index
    accounts,           \* table accounts: id -> balance in hundredths
    journalEntries,     \* table journal_entries, row id = index
    journalEntryLines,  \* table journal_entry_lines, row id = index
    lastOp,             \* history: the storage operation that ended last
    requests            \* the requests in progress, statement by statement

calcVars == <<calcParams, calcResult>>
penVars == <<penInput, penalty>>
ledgerVars == <<accounts, journalEntries, journalEntryLines>>
dbVars == <<loans, emiSchedule, payments, accounts, journalEntries, journalEntryLines>>
vars == <<calcParams, calcResult, penInput, now, penalty, loans, emiSchedule,
          payments, accounts, journalEntries, journalEntryLines, lastOp, requests>>

\* the values the variables of a component hold while it is not exercised
NoCall == [state |-> "none", schedule |-> << >>]
NoParams == [tenure |-> 0]
NoPenalty == [evaluated |-> FALSE, asOf |-> 0, amount |-> 0]
NoInstallment == [emiAmount |-> 0]
NoOp == [seq |-> 0, op |-> "none", ok |-> TRUE]
CalcIdle == calcParams = NoParams /\ calcResult = NoCall
PenaltyIdle == penInput = NoInstallment /\ penalty = NoPenalty
StorageIdle ==
    /\ loans = << >> /\ emiSchedule = << >> /\ payments = << >>
    /\ accounts = << >> /\ journalEntries = << >> /\ journalEntryLines = << >>
    /\ lastOp = NoOp
    /\ requests = << >>

(***************************************************************************)
(* The amortization engine called on its own, on valid and invalid terms.  *)
(***************************************************************************)
StartDates == {<<2024, 1, 31>>, <<2023, 1, 30>>, <<2024, 11, 15>>, <<2023, 12, 31>>}

InterestTypes == {"flat", "reducing", "compound"}

Frequencies == {"monthly", "weekly", "daily"}

InterestRates == {0, 12, 600, 1200}

\* principals in hundredths: whole amounts up to the bound, an amount with a
\* fraction, a zero and a negative one
Principals == {100 * r : r \in 1..MaxPrincipal} \cup {1050, 100000, 0, -1000}

Tenures == (-1)..MaxTenure

\* A reducing schedule is evaluated exactly, so it is drawn at the rates
\* whose monthly rate has a small denominator (0, 1/2, 1).
\* a loan of ordinary size: 120000.00 at 12 % a year over 12 months, flat
YearLoan ==
    [principal |-> 12000000, interestRate |-> 12, tenure |-> 12,
     interestType |-> "flat", startDate |-> <<2024, 1, 31>>, frequency |-> "monthly"]

ParamSpace ==
    {p \in [principal : Principals, interestRate : InterestRates,
            tenure : Tenures, interestType : InterestTypes,
            startDate : StartDates, frequency : Frequencies] :
        p.interestType = "flat" \/ p.interestRate \in {0, 600, 1200}}
    \cup {YearLoan}

InitSchedule ==
    /\ calcParams \in ParamSpace
    /\ calcResult = NoCall
    /\ PenaltyIdle
    /\ StorageIdle
    /\ now = 0

\* one call of calculateEMISchedule; the function has no failing path
Calculate ==
    /\ calcResult.state = "none"
    /\ calcResult' = [state |-> "returned", schedule |-> calculateEMISchedule(calcParams)]
    /\ UNCHANGED <<calcParams, penVars, now, dbVars, lastOp, requests>>

NextSchedule == Calculate

SpecSchedule == InitSchedule /\ [][NextSchedule]_vars

(***************************************************************************)
(* The penalty function called on one installment while the clock runs.    *)
(***************************************************************************)
MaxClockDays == 12

ClockStart == TimeOfDate(<<2023, 12, 30>>)

\* EMI amounts in hundredths
PenaltyInputs ==
    [emiAmount : {0, 3300, 1000000}, dueDate : {<<2024, 1, 1>>, <<2023, 12, 31>>},
     gracePeriod : {0, 5}, penaltyRate : {0, 1, 2}]

InitPenalty ==
    /\ penInput \in PenaltyInputs
    /\ now = ClockStart
    /\ penalty = NoPenalty
    /\ CalcIdle
    /\ StorageIdle

\* time passes: half a day or a day
Tick ==
    /\ \E h \in {HoursPerDay \div 2, HoursPerDay} :
          /\ now + h <= ClockStart + MaxClockDays * HoursPerDay
          /\ now' = now + h
    /\ UNCHANGED <<calcVars, penVars, dbVars, lastOp, requests>>

\* one call of calculatePenalty at the current instant
Evaluate ==
    /\ penalty' = [evaluated |-> TRUE, asOf |-> now,
                   amount |-> calculatePenalty(ParseFloat(penInput.emiAmount),
                                 penInput.dueDate, penInput.gracePeriod,
                                 penInput.penaltyRate, now)]
    /\ UNCHANGED <<calcVars, penInput, now, dbVars, lastOp, requests>>

NextPenalty == Tick \/ Evaluate

SpecPenalty == InitPenalty /\ [][NextPenalty]_vars

(***************************************************************************)
(* The storage layer (DatabaseStorage).  Each action is one call of a      *)
(* storage method, run to its end on its own; the statements of a method   *)
(* are separate database statements with no transaction around them, so a  *)
(* statement that throws leaves the earlier ones stored.                   *)
(***************************************************************************)
MaxOps == 4
MaxLoans == 2
MaxPasses == 1

\* the instant the first request arrives, and the days between two requests
\* that are not made at the same instant
FirstRequest == TimeOfDate(<<2024, 3, 3>>)
DaysApart == 31

\* account ids of the default chart of accounts, in insertion order
CashAndBank == 1
LoanReceivable == 2
InterestIncome == 3
PenaltyIncome == 4

\* opening balance of Cash & Bank, 1000000 units, in hundredths
OpeningCash == 100000000

\* the default split of a payment with no matched installment, 0.7 and 0.3
DefaultPrincipalSplit == <<7, 10>>
DefaultInterestSplit == <<3, 10>>

RECURSIVE SumInterest(_, _)
SumInterest(s, n) == IF n = 0 THEN 0 ELSE SumInterest(s, n - 1) + s[n].interestAmount

\* the rows generateEMISchedule inserts for loan id: whole amounts written
\* with toString() into decimal columns, the column defaults for the rest
EmiRows(id, schedule) ==
    [i \in 1..Len(schedule) |->
        [loanId |-> id,
         installmentNumber |-> i,
         dueDate |-> schedule[i].dueDate,
         emiAmount |-> 100 * schedule[i].emiAmount,
         principalAmount |-> 100 * schedule[i].principalAmount,
         interestAmount |-> 100 * schedule[i].interestAmount,
         penaltyAmount |-> 0,
         totalAmount |-> 100 * schedule[i].emiAmount,
         status |-> "unpaid",
         paidAmount |-> 0,
         paidDate |-> << >>,
         outstandingBalance |-> 100 * schedule[i].outstandingBalance]]

\* the schedule generateEMISchedule computes from a loan row
LoanSchedule(loan) ==
    calculateEMISchedule([principal |-> loan.principalAmount,
                          interestRate |-> loan.interestRate,
                          tenure |-> loan.tenure,
                          interestType |-> loan.interestType,
                          startDate |-> loan.startDate,
                          frequency |-> loan.repaymentFrequency])

\* the loan row after generateEMISchedule's update of the totals
LoanActivated(loan, schedule) ==
    LET totalInterest == 100 * SumInterest(schedule, Len(schedule))
    IN [loan EXCEPT !.emiAmount = 100 * schedule[1].emiAmount,
                    !.totalInterest = totalInterest,
                    !.totalAmount = loan.principalAmount + totalInterest,
                    !.outstandingAmount = loan.principalAmount + totalInterest,
                    !.status = "active"]

\* the header a posting inserts: the number is the count of entries + 1
EntryHeader(description, reference, totalAmount) ==
    [entryNumber |-> Len(journalEntries) + 1,
     description |-> description,
     reference |-> reference,
     totalAmount |-> totalAmount]

\* the two lines of createLoanDisbursementEntry, amounts in hundredths
DisbursementLines(loan) ==
    << [accountId |-> LoanReceivable, debitAmount |-> RInt(loan.principalAmount),
        creditAmount |-> RInt(0)],
       [accountId |-> CashAndBank, debitAmount |-> RInt(0),
        creditAmount |-> RInt(loan.principalAmount)] >>

\* the rows db.insert(journalEntryLines) stores for lines (exact amounts in
\* hundredths) under entry id: a decimal(12, 2) column rounds what it is given
StoredLines(lines, entryId) ==
    [i \in 1..Len(lines) |->
        [journalEntryId |-> entryId,
         accountId |-> lines[i].accountId,
         debitAmount |-> NumericRound(lines[i].debitAmount),
         creditAmount |-> NumericRound(lines[i].creditAmount)]]

\* the insert of the lines fails as a whole on an account id that is no row
\* of accounts (the foreign key of journal_entry_lines.account_id)
LinesInsertable(lines) == \A i \in 1..Len(lines) : lines[i].accountId \in DOMAIN accounts

\* updateAccountBalances with the balance set to the net amount of the line
RECURSIVE updateAccountBalancesSet(_, _, _)
updateAccountBalancesSet(acc, lines, n) ==
    IF n = 0 THEN acc
    ELSE LET before == updateAccountBalancesSet(acc, lines, n - 1)
             line == lines[n]
             netAmount == RSub(line.debitAmount, line.creditAmount)
         IN IF line.accountId \in DOMAIN before
            THEN [before EXCEPT ![line.accountId] = NumericRound(netAmount)]
            ELSE before

\* updateAccountBalances: line by line, balance = balance + (debit - credit)
\* with the amounts as the caller holds them; the column rounds the sum
RECURSIVE updateAccountBalances(_, _, _)
updateAccountBalances(acc, lines, n) ==
    IF n = 0 THEN acc
    ELSE LET before == updateAccountBalances(acc, lines, n - 1)
             line == lines[n]
             netAmount == RSub(line.debitAmount, line.creditAmount)
         IN IF line.accountId \in DOMAIN before
            THEN [before EXCEPT ![line.accountId] =
                     NumericRound(RAdd(RInt(before[line.accountId]), netAmount))]
            ELSE before

\* the split with the matched installment never looked up
PaymentSplitFixed(payment) ==
    [principal |-> DefaultPrincipalSplit, interest |-> DefaultInterestSplit]

\* principalSplit and interestSplit of createPaymentAccountingEntries
PaymentSplit(payment) ==
    IF payment.emiId # 0 /\ payment.emiId \in DOMAIN emiSchedule
    THEN LET emi == emiSchedule[payment.emiId]
         IN [principal |-> RDiv(RInt(emi.principalAmount), RInt(emi.emiAmount)),
             interest |-> RDiv(RInt(emi.interestAmount), RInt(emi.emiAmount))]
    ELSE [principal |-> DefaultPrincipalSplit, interest |-> DefaultInterestSplit]

\* the three lines of createPaymentAccountingEntries, amounts in hundredths
PaymentLines(payment) ==
    LET split == PaymentSplit(payment)
        principalAmount == RMul(RInt(payment.amount), split.principal)
        interestAmount == RMul(RInt(payment.amount), split.interest)
    IN << [accountId |-> CashAndBank, debitAmount |-> RInt(payment.amount),
           creditAmount |-> RInt(0)],
          [accountId |-> LoanReceivable, debitAmount |-> RInt(0),
           creditAmount |-> principalAmount],
          [accountId |-> InterestIncome, debitAmount |-> RInt(0),
           creditAmount |-> interestAmount] >>

\* the installment row after createPayment's updateEMIStatus
\* EmiPaid that also takes the penalty off the installment
EmiPaidClearingPenalty(emi, amount) ==
    LET paidAmount == emi.paidAmount + amount
    IN [emi EXCEPT !.status = IF paidAmount >= emi.totalAmount THEN "paid" ELSE "partial",
                   !.paidAmount = paidAmount,
                   !.paidDate = <<now>>,
                   !.penaltyAmount = 0,
                   !.totalAmount = emi.emiAmount]

\* EmiPaid that stores the amount of the payment as the paid amount
EmiPaidOverwriting(emi, amount) ==
    [emi EXCEPT !.status = IF amount >= emi.totalAmount THEN "paid" ELSE "partial",
                !.paidAmount = amount,
                !.paidDate = <<now>>]

EmiPaid(emi, amount) ==
    LET paidAmount == emi.paidAmount + amount
    IN [emi EXCEPT !.status = IF paidAmount >= emi.totalAmount THEN "paid" ELSE "partial",
                   !.paidAmount = paidAmount,
                   !.paidDate = <<now>>]

\* the history of a storage operation that ends: its name, whether it
\* returned (ok) or threw, and its argument; MaxOps bounds a run
Ended(op, ok, input) ==
    /\ lastOp.seq < MaxOps
    /\ lastOp' = [seq |-> lastOp.seq + 1, op |-> op, ok |-> ok, input |-> input]
    /\ UNCHANGED <<calcVars, penVars, now, requests>>

(* ---- the operations ---- *)

\* terms of the loans created, all valid, with a first EMI of at least one
\* unit (the payment split divides by the stored EMI amount)
LoanTerms ==
    { [principalAmount |-> 10000, interestRate |-> 5, interestType |-> "flat",
       tenure |-> 3, repaymentFrequency |-> "monthly", gracePeriod |-> 0,
       startDate |-> <<2024, 1, 31>>],
      [principalAmount |-> 1000, interestRate |-> 600, interestType |-> "reducing",
       tenure |-> 2, repaymentFrequency |-> "weekly", gracePeriod |-> 5,
       startDate |-> <<2023, 12, 31>>] }

\* the row createLoan inserts for a request with these terms
NewLoan(terms) ==
    [principalAmount |-> terms.principalAmount, interestRate |-> terms.interestRate,
     interestType |-> terms.interestType, tenure |-> terms.tenure,
     repaymentFrequency |-> terms.repaymentFrequency,
     gracePeriod |-> terms.gracePeriod, startDate |-> terms.startDate,
     status |-> "pending", agreementSigned |-> FALSE,
     emiAmount |-> 0, totalInterest |-> 0, totalAmount |-> 0,
     outstandingAmount |-> 0]

createLoan(terms) ==
    /\ Len(loans) < MaxLoans
    /\ loans' = Append(loans, NewLoan(terms))
    /\ Ended("createLoan", TRUE, Len(loans) + 1)
    /\ UNCHANGED <<emiSchedule, payments, ledgerVars>>

\* approveLoan: mark approved, generateEMISchedule (insert the schedule,
\* store the totals, mark active), createLoanDisbursementEntry (header and
\* two lines; the method does not call updateAccountBalances)
approveLoan(id) ==
    IF id \notin DOMAIN loans
    THEN /\ Ended("approveLoan", FALSE, id)
         /\ UNCHANGED dbVars
    ELSE LET loan == [loans[id] EXCEPT !.status = "approved"]
             schedule == LoanSchedule(loan)
         IN /\ emiSchedule' = emiSchedule \o EmiRows(id, schedule)
            /\ loans' = [loans EXCEPT ![id] = LoanActivated(loan, schedule)]
            /\ journalEntries' = Append(journalEntries,
                  EntryHeader("Loan Disbursement", id, loan.principalAmount))
            /\ journalEntryLines' = journalEntryLines
                  \o StoredLines(DisbursementLines(loan), Len(journalEntries) + 1)
            /\ Ended("approveLoan", TRUE, id)
            /\ UNCHANGED <<payments, accounts>>

\* updateLoan (PUT /api/loans/:id): the fields of the request are set on the
\* row whatever its status; a missing row updates nothing
updateLoan(id, fields) ==
    /\ loans' = [l \in DOMAIN loans |->
                    IF l = id
                    THEN [f \in DOMAIN loans[l] |->
                             IF f \in DOMAIN fields THEN fields[f] ELSE loans[l][f]]
                    ELSE loans[l]]
    /\ Ended("updateLoan", TRUE, [id |-> id, fields |-> fields])
    /\ UNCHANGED <<emiSchedule, payments, ledgerVars>>

rejectLoan(id) ==
    /\ id \in DOMAIN loans
    /\ loans' = [loans EXCEPT ![id].status = "rejected"]
    /\ Ended("rejectLoan", TRUE, id)
    /\ UNCHANGED <<emiSchedule, payments, ledgerVars>>

\* createPayment: insert the payment (its loan and its installment, when
\* given, must be rows: foreign keys), add the amount to the installment,
\* then createPaymentAccountingEntries: header, three lines, balances
createPayment(payment) ==
    IF payment.loanId \notin DOMAIN loans
       \/ (payment.emiId # 0 /\ payment.emiId \notin DOMAIN emiSchedule)
    THEN /\ Ended("createPayment", FALSE, payment)
         /\ UNCHANGED dbVars
    ELSE LET lines == PaymentLines(payment)
         IN /\ payments' = Append(payments, payment)
            /\ emiSchedule' =
                  IF payment.emiId = 0 THEN emiSchedule
                  ELSE [emiSchedule EXCEPT ![payment.emiId] = EmiPaid(@, payment.amount)]
            /\ journalEntries' = Append(journalEntries,
                  EntryHeader("Payment received", Len(payments) + 1, payment.amount))
            /\ journalEntryLines' = journalEntryLines
                  \o StoredLines(lines, Len(journalEntries) + 1)
            /\ accounts' = updateAccountBalances(accounts, lines, Len(lines))
            /\ Ended("createPayment", TRUE, payment)
            /\ UNCHANGED loans

\* the sum of max(debit, credit) over the lines (POST /api/journal-entries)
RECURSIVE EntryTotal(_, _)
EntryTotal(lines, n) ==
    IF n = 0 THEN 0
    ELSE LET d == lines[n].debitAmount
             c == lines[n].creditAmount
         IN EntryTotal(lines, n - 1) + (IF d >= c THEN d ELSE c)

\* the lines of a request as createJournalEntry holds them
RequestLines(lines) ==
    [i \in 1..Len(lines) |->
        [accountId |-> lines[i].accountId,
         debitAmount |-> RInt(lines[i].debitAmount),
         creditAmount |-> RInt(lines[i].creditAmount)]]

\* createJournalEntry: insert the header, insert the lines, update the
\* balances; nothing compares the debits with the credits.  An unknown
\* account fails the insert of the lines after the header is stored.
createJournalEntry(lines) ==
    /\ journalEntries' = Append(journalEntries,
          EntryHeader("Manual entry", 0, EntryTotal(lines, Len(lines))))
    /\ IF LinesInsertable(lines)
       THEN /\ journalEntryLines' = journalEntryLines
                  \o StoredLines(RequestLines(lines), Len(journalEntries) + 1)
            /\ accounts' = updateAccountBalances(accounts, RequestLines(lines), Len(lines))
            /\ Ended("createJournalEntry", TRUE, lines)
       ELSE /\ Ended("createJournalEntry", FALSE, lines)
            /\ UNCHANGED <<journalEntryLines, accounts>>
    /\ UNCHANGED <<loans, emiSchedule, payments>>

\* the rate calculatePenalty falls back on when called with three arguments
DefaultPenaltyRate == 2

\* a selection that leaves out only the rows already marked overdue
overdueEMIsAnyStatus(rows, today) ==
    {i \in DOMAIN rows : rows[i].status # "overdue" /\ DayNumber(rows[i].dueDate) < today}

\* the rows the query of calculateAndUpdatePenalties selects: status
\* 'unpaid' and due_date < current_date (today is a day number)
overdueEMIs(rows, today) ==
    {i \in DOMAIN rows : rows[i].status = "unpaid" /\ DayNumber(rows[i].dueDate) < today}

\* the update of one selected row that adds the penalty of the run to what
\* the row holds and leaves its status
AccruedRowAdding(emi, loan, t) ==
    LET computed == calculatePenalty(ParseFloat(emi.emiAmount), emi.dueDate,
                                     loan.gracePeriod, DefaultPenaltyRate, t)
    IN IF computed > 0
       THEN [emi EXCEPT !.penaltyAmount = emi.penaltyAmount + 100 * computed,
                        !.totalAmount = emi.totalAmount + 100 * computed]
       ELSE emi

\* the update of one selected row with the total taken from the paid amount
AccruedRowOnPaid(emi, loan, t) ==
    LET computed == calculatePenalty(ParseFloat(emi.emiAmount), emi.dueDate,
                                     loan.gracePeriod, DefaultPenaltyRate, t)
    IN IF computed > 0
       THEN [emi EXCEPT !.penaltyAmount = 100 * computed,
                        !.totalAmount = emi.paidAmount + 100 * computed,
                        !.status = "overdue"]
       ELSE emi

\* the body of the loop of calculateAndUpdatePenalties on one selected row
\* at instant t: the penalty in whole units from the row's EMI amount, its
\* due date and the loan's grace period; the row is written when it is > 0
AccruedRow(emi, loan, t) ==
    LET computed == calculatePenalty(ParseFloat(emi.emiAmount), emi.dueDate,
                                     loan.gracePeriod, DefaultPenaltyRate, t)
    IN IF computed > 0
       THEN [emi EXCEPT !.penaltyAmount = 100 * computed,
                        !.totalAmount = emi.emiAmount + 100 * computed,
                        !.status = "overdue"]
       ELSE emi

\* table emi_schedule after a run of calculateAndUpdatePenalties at instant
\* t: every row is selected and written on its own
PenaltiesUpdated(rows, lns, t) ==
    [i \in DOMAIN rows |->
        IF i \in overdueEMIs(rows, DayOfTime(t))
        THEN AccruedRow(rows[i], lns[rows[i].loanId], t)
        ELSE rows[i]]

\* calculateAndUpdatePenalties (POST /api/calculate-penalties); the history
\* keeps the instant of the run and the number of rows it wrote
calculateAndUpdatePenalties ==
    /\ emiSchedule' = PenaltiesUpdated(emiSchedule, loans, now)
    /\ Ended("calculateAndUpdatePenalties", TRUE,
             [asOf |-> now,
              written |-> Cardinality({i \in DOMAIN emiSchedule :
                             emiSchedule'[i] # emiSchedule[i]})])
    /\ UNCHANGED <<loans, payments, ledgerVars>>

\* amounts of the payments recorded, in hundredths
PaymentAmounts == {1000, 3400}

\* the lines of a manual entry: a known or an unknown account, a debit or a
\* credit of 5.00
ManualLine ==
    {[accountId |-> a, debitAmount |-> d, creditAmount |-> 500 - d] :
        a \in {InterestIncome, 9}, d \in {0, 500}}

ManualLines == {<<l>> : l \in ManualLine} \cup {<<l, m>> : l \in ManualLine, m \in ManualLine}

\* the database after initializeDefaultData's chart of accounts (the sample
\* customers, loans and payments it also inserts are left out)
Init ==
    /\ loans = << >>
    /\ emiSchedule = << >>
    /\ payments = << >>
    /\ accounts = <<OpeningCash, 0, 0, 0>>
    /\ journalEntries = << >>
    /\ journalEntryLines = << >>
    /\ lastOp = NoOp
    /\ requests = << >>
    /\ now = FirstRequest
    /\ CalcIdle
    /\ PenaltyIdle

CreateLoan == \E terms \in LoanTerms : createLoan(terms)

ApproveLoan == \E id \in 1..(Len(loans) + 1) : approveLoan(id)

RejectLoan == \E id \in DOMAIN loans : rejectLoan(id)

CreatePayment ==
    \E loanId \in 1..(Len(loans) + 1), emiId \in 0..Len(emiSchedule), amount \in PaymentAmounts :
        createPayment([loanId |-> loanId, emiId |-> emiId, amount |-> amount])

CreateJournalEntry == \E lines \in ManualLines : createJournalEntry(lines)

\* the fields of a request that edits a loan: a shorter tenure, a larger
\* principal
LoanEdits == {[tenure |-> 1], [principalAmount |-> 20000]}

UpdateLoan == \E id \in 1..(Len(loans) + 1), fields \in LoanEdits : updateLoan(id, fields)

\* time passes between two requests
PassTime ==
    /\ now + DaysApart * HoursPerDay <= FirstRequest + MaxPasses * DaysApart * HoursPerDay
    /\ now' = now + DaysApart * HoursPerDay
    /\ UNCHANGED <<calcVars, penVars, dbVars, lastOp, requests>>

Next ==
    \/ CreateLoan
    \/ ApproveLoan
    \/ RejectLoan
    \/ CreatePayment
    \/ CreateJournalEntry
    \/ UpdateLoan
    \/ calculateAndUpdatePenalties
    \/ PassTime

Spec == Init /\ [][Next]_vars

(***************************************************************************)
(* The storage operations statement by statement.  A storage method is a   *)
(* chain of awaited database statements with no transaction around them;   *)
(* requests in progress take turns at their awaits, so the statements of   *)
(* two requests interleave.  Each statement is atomic in the database: an  *)
(* UPDATE that computes balance + n reads and writes the row in one step,  *)
(* and an insert of a taken entry_number or payment_id is refused by the   *)
(* column's unique constraint.                                             *)
(***************************************************************************)
MaxRequests == 2

FirstStatement(op) ==
    IF op = "createPayment" THEN "countPayments"
    ELSE IF op = "approveLoan" THEN "markApproved"
    ELSE "countEntries"

\* a request at its first statement; count, row, entryNumber and entryId
\* are the method's local variables, applied counts the lines whose balance
\* update has run
Request(op, arg) ==
    [op |-> op, arg |-> arg, pc |-> FirstStatement(op), count |-> 0, row |-> << >>,
     entryNumber |-> 0, entryId |-> 0, applied |-> 0]

RequestArg(loanId, emiId, amount, lines) ==
    [loanId |-> loanId, emiId |-> emiId, amount |-> amount, lines |-> lines]

\* the requests made: a payment on the first installment of loan 1, a
\* balanced manual entry, the approval of loan 2
RequestList ==
    << Request("createPayment", RequestArg(1, 1, 1000, << >>)),
       Request("createJournalEntry", RequestArg(0, 0, 0,
           << [accountId |-> CashAndBank, debitAmount |-> 500, creditAmount |-> 0],
              [accountId |-> InterestIncome, debitAmount |-> 0, creditAmount |-> 500] >>)),
       Request("approveLoan", RequestArg(2, 0, 0, << >>)) >>

\* the requests in progress together, listed in the order of RequestList
\* (which of two requests is called first is decided by the interleaving)
RequestsInProgress ==
    {[p \in 1..MaxRequests |-> RequestList[choice[p]]] :
        choice \in {c \in [1..MaxRequests -> DOMAIN RequestList] :
                       \A p \in 1..(MaxRequests - 1) : c[p] <= c[p + 1]}}

\* the lines the posting method of request r holds
HeldLines(r) ==
    IF r.op = "createPayment" THEN PaymentLines(r.arg)
    ELSE IF r.op = "approveLoan" THEN DisbursementLines(r.row)
    ELSE RequestLines(r.arg.lines)

\* the header the posting method of request r inserts
HeldHeader(r) ==
    LET header ==
          IF r.op = "createPayment"
          THEN EntryHeader("Payment received", r.count + 1, r.arg.amount)
          ELSE IF r.op = "approveLoan"
          THEN EntryHeader("Loan Disbursement", r.arg.loanId, r.row.principalAmount)
          ELSE EntryHeader("Manual entry", 0, EntryTotal(r.arg.lines, Len(r.arg.lines)))
    IN [header EXCEPT !.entryNumber = r.entryNumber]

Proceed(p, r) ==
    /\ requests' = [requests EXCEPT ![p] = r]
    /\ UNCHANGED <<calcVars, penVars, now, lastOp>>

At(p, pc) == requests[p].pc = pc

(* ---- createPayment ---- *)

\* select count(*) from payments
CountPayments(p) ==
    /\ At(p, "countPayments")
    /\ Proceed(p, [requests[p] EXCEPT !.count = Len(payments), !.pc = "insertPayment"])
    /\ UNCHANGED dbVars

\* insert into payments: the payment id PMT<count + 1> must be new, the
\* loan and the installment, when given, must be rows
InsertPayment(p) ==
    LET r == requests[p] IN
    /\ At(p, "insertPayment")
    /\ IF \/ \E i \in DOMAIN payments : payments[i].paymentId = r.count + 1
          \/ r.arg.loanId \notin DOMAIN loans
          \/ (r.arg.emiId # 0 /\ r.arg.emiId \notin DOMAIN emiSchedule)
       THEN /\ Proceed(p, [r EXCEPT !.pc = "failed"])
            /\ UNCHANGED payments
       ELSE /\ payments' = Append(payments,
                  [loanId |-> r.arg.loanId, emiId |-> r.arg.emiId,
                   amount |-> r.arg.amount, paymentId |-> r.count + 1])
            /\ Proceed(p, [r EXCEPT !.pc = IF r.arg.emiId # 0 THEN "selectEmi"
                                           ELSE "countEntries"])
    /\ UNCHANGED <<loans, emiSchedule, ledgerVars>>

\* select the installment (currentEmi)
SelectEmi(p) ==
    /\ At(p, "selectEmi")
    /\ Proceed(p, [requests[p] EXCEPT !.row = emiSchedule[requests[p].arg.emiId],
                                      !.pc = "updateEmi"])
    /\ UNCHANGED dbVars

\* updateEMIStatus: status, paid amount and paid date computed from the
\* installment as it was selected
UpdateEmi(p) ==
    LET r == requests[p]
        written == EmiPaid(r.row, r.arg.amount)
    IN /\ At(p, "updateEmi")
       /\ emiSchedule' = [emiSchedule EXCEPT ![r.arg.emiId].status = written.status,
                                             ![r.arg.emiId].paidAmount = written.paidAmount,
                                             ![r.arg.emiId].paidDate = written.paidDate]
       /\ Proceed(p, [r EXCEPT !.pc = "countEntries"])
       /\ UNCHANGED <<loans, payments, ledgerVars>>

(* ---- approveLoan ---- *)

\* update loans set status = 'approved' ... returning
MarkApproved(p) ==
    LET r == requests[p]
        id == r.arg.loanId
    IN /\ At(p, "markApproved")
       /\ IF id \in DOMAIN loans
          THEN /\ loans' = [loans EXCEPT ![id].status = "approved"]
               /\ Proceed(p, [r EXCEPT !.row = loans'[id], !.pc = "getLoan"])
          ELSE /\ Proceed(p, [r EXCEPT !.pc = "getLoan"])
               /\ UNCHANGED loans
       /\ UNCHANGED <<emiSchedule, payments, ledgerVars>>

\* generateEMISchedule: getLoanById, 'Loan not found' when there is no row
GetLoan(p) ==
    LET r == requests[p] IN
    /\ At(p, "getLoan")
    /\ Proceed(p, [r EXCEPT !.pc = IF r.arg.loanId \in DOMAIN loans THEN "insertEmis"
                                   ELSE "failed"])
    /\ UNCHANGED dbVars

\* generateEMISchedule: insert the installments
InsertEmis(p) ==
    LET r == requests[p] IN
    /\ At(p, "insertEmis")
    /\ emiSchedule' = emiSchedule \o EmiRows(r.arg.loanId, LoanSchedule(r.row))
    /\ Proceed(p, [r EXCEPT !.pc = "updateTotals"])
    /\ UNCHANGED <<loans, payments, ledgerVars>>

\* generateEMISchedule: store the totals and mark the loan active
UpdateTotals(p) ==
    LET r == requests[p]
        written == LoanActivated(r.row, LoanSchedule(r.row))
    IN /\ At(p, "updateTotals")
       /\ loans' = [loans EXCEPT ![r.arg.loanId].emiAmount = written.emiAmount,
                                 ![r.arg.loanId].totalInterest = written.totalInterest,
                                 ![r.arg.loanId].totalAmount = written.totalAmount,
                                 ![r.arg.loanId].outstandingAmount = written.outstandingAmount,
                                 ![r.arg.loanId].status = written.status]
       /\ Proceed(p, [r EXCEPT !.pc = "countEntries"])
       /\ UNCHANGED <<emiSchedule, payments, ledgerVars>>

(* ---- the posting methods ---- *)

\* select count(*) from journal_entries; entryNumber = JE<count + 1>
CountEntries(p) ==
    /\ At(p, "countEntries")
    /\ Proceed(p, [requests[p] EXCEPT !.entryNumber = Len(journalEntries) + 1,
                                      !.pc = "insertEntry"])
    /\ UNCHANGED dbVars

\* insert into journal_entries ... returning; a taken entry number is refused
InsertEntry(p) ==
    LET r == requests[p] IN
    /\ At(p, "insertEntry")
    /\ IF \E e \in DOMAIN journalEntries : journalEntries[e].entryNumber = r.entryNumber
       THEN /\ Proceed(p, [r EXCEPT !.pc = "failed"])
            /\ UNCHANGED journalEntries
       ELSE /\ journalEntries' = Append(journalEntries, HeldHeader(r))
            /\ Proceed(p, [r EXCEPT !.entryId = Len(journalEntries) + 1,
                                    !.pc = "insertLines"])
    /\ UNCHANGED <<loans, emiSchedule, payments, accounts, journalEntryLines>>

\* insert into journal_entry_lines; the disbursement ends here
InsertLines(p) ==
    LET r == requests[p] IN
    /\ At(p, "insertLines")
    /\ IF LinesInsertable(HeldLines(r))
       THEN /\ journalEntryLines' = journalEntryLines \o StoredLines(HeldLines(r), r.entryId)
            /\ Proceed(p, [r EXCEPT !.pc = IF r.op = "approveLoan" THEN "done"
                                           ELSE "updateBalance"])
       ELSE /\ Proceed(p, [r EXCEPT !.pc = "failed"])
            /\ UNCHANGED journalEntryLines
    /\ UNCHANGED <<loans, emiSchedule, payments, accounts, journalEntries>>

\* updateAccountBalances: the UPDATE of the next line
UpdateBalance(p) ==
    LET r == requests[p]
        k == r.applied + 1
    IN /\ At(p, "updateBalance")
       /\ accounts' = updateAccountBalances(accounts, <<HeldLines(r)[k]>>, 1)
       /\ Proceed(p, [r EXCEPT !.applied = k,
                               !.pc = IF k = Len(HeldLines(r)) THEN "done"
                                      ELSE "updateBalance"])
       /\ UNCHANGED <<loans, emiSchedule, payments, journalEntries, journalEntryLines>>

\* the database after createLoan of the flat loan, approveLoan(1) and
\* createLoan of the reducing loan, with the requests about to start
InitRequests ==
    LET flat == NewLoan(CHOOSE t \in LoanTerms : t.interestType = "flat")
        reducing == NewLoan(CHOOSE t \in LoanTerms : t.interestType = "reducing")
        approved == [flat EXCEPT !.status = "approved"]
    IN /\ loans = <<LoanActivated(approved, LoanSchedule(approved)), reducing>>
       /\ emiSchedule = EmiRows(1, LoanSchedule(approved))
       /\ payments = << >>
       /\ accounts = <<OpeningCash, 0, 0, 0>>
       /\ journalEntries = <<[entryNumber |-> 1, description |-> "Loan Disbursement",
                              reference |-> 1, totalAmount |-> approved.principalAmount]>>
       /\ journalEntryLines = StoredLines(DisbursementLines(approved), 1)
       /\ lastOp = NoOp
       /\ now = FirstRequest
       /\ requests \in RequestsInProgress
       /\ CalcIdle
       /\ PenaltyIdle

NextRequests ==
    \/ \E p \in DOMAIN requests : CountPayments(p)
    \/ \E p \in DOMAIN requests : InsertPayment(p)
    \/ \E p \in DOMAIN requests : SelectEmi(p)
    \/ \E p \in DOMAIN requests : UpdateEmi(p)
    \/ \E p \in DOMAIN requests : MarkApproved(p)
    \/ \E p \in DOMAIN requests : GetLoan(p)
    \/ \E p \in DOMAIN requests : InsertEmis(p)
    \/ \E p \in DOMAIN requests : UpdateTotals(p)
    \/ \E p \in DOMAIN requests : CountEntries(p)
    \/ \E p \in DOMAIN requests : InsertEntry(p)
    \/ \E p \in DOMAIN requests : InsertLines(p)
    \/ \E p \in DOMAIN requests : UpdateBalance(p)

SpecRequests == InitRequests /\ [][NextRequests]_vars

(***************************************************************************)
(* Properties of the ledger postings.                                      *)
(***************************************************************************)
RECURSIVE DebitSum(_, _, _)
DebitSum(rows, e, n) ==
    IF n = 0 THEN 0
    ELSE DebitSum(rows, e, n - 1)
            + (IF rows[n].journalEntryId = e THEN rows[n].debitAmount ELSE 0)

RECURSIVE CreditSum(_, _, _)
CreditSum(rows, e, n) ==
    IF n = 0 THEN 0
    ELSE CreditSum(rows, e, n - 1)
            + (IF rows[n].journalEntryId = e THEN rows[n].creditAmount ELSE 0)

\* debit - credit of the stored lines of entry e on account a
RECURSIVE NetOn(_, _, _, _)
NetOn(rows, e, a, n) ==
    IF n = 0 THEN 0
    ELSE NetOn(rows, e, a, n - 1)
            + (IF rows[n].journalEntryId = e /\ rows[n].accountId = a
               THEN rows[n].debitAmount - rows[n].creditAmount ELSE 0)

LinesOf(rows, e) == {i \in DOMAIN rows : rows[i].journalEntryId = e}

\* C1 as stated: every journal entry constructed for a business event (a
\* disbursement, a payment with or without a matched installment) has
\* equal sums of debit and credit amounts.
C1_BusinessEntriesBalanced ==
    \A e \in DOMAIN journalEntries :
        journalEntries[e].description \in {"Loan Disbursement", "Payment received"} =>
            DebitSum(journalEntryLines, e, Len(journalEntryLines))
                = CreditSum(journalEntryLines, e, Len(journalEntryLines))

\* the step is the end of a storage operation named in ops
StepOf(ops) == lastOp'.seq # lastOp.seq /\ lastOp'.op \in ops

RECURSIVE InputDebit(_, _)
InputDebit(lines, n) == IF n = 0 THEN 0 ELSE InputDebit(lines, n - 1) + lines[n].debitAmount

RECURSIVE InputCredit(_, _)
InputCredit(lines, n) == IF n = 0 THEN 0 ELSE InputCredit(lines, n - 1) + lines[n].creditAmount

\* C2 as stated: a manual entry whose lines do not balance fails as a
\* whole: no header, no line and no balance change is stored.
C2_ImbalancedEntryStoresNothing ==
    [][(/\ StepOf({"createJournalEntry"})
        /\ InputDebit(lastOp'.input, Len(lastOp'.input))
              # InputCredit(lastOp'.input, Len(lastOp'.input)))
       => UNCHANGED ledgerVars]_vars

\* the step stored one new entry, at least one line, all lines under the new
\* entry, and moved every balance by the net of the new lines on its account
PostedInFull ==
    LET e == Len(journalEntries) + 1 IN
    /\ Len(journalEntries') = e
    /\ Len(journalEntryLines') > Len(journalEntryLines)
    /\ \A i \in DOMAIN journalEntryLines' :
          i > Len(journalEntryLines) <=> journalEntryLines'[i].journalEntryId = e
    /\ \A a \in DOMAIN accounts :
          accounts'[a] = accounts[a] + NetOn(journalEntryLines', e, a, Len(journalEntryLines'))

\* C3 as stated: when a posting operation (disbursement on approval,
\* payment, manual entry) ends, returned or failed, either the header, all
\* lines and all balance updates are stored, or none of them is.
C3_PostingAllOrNothing ==
    [][StepOf({"approveLoan", "createPayment", "createJournalEntry"})
       => (PostedInFull \/ UNCHANGED ledgerVars)]_vars

\* C4 as stated: approving a loan of principal P stores one entry with two
\* lines, debit Loan Receivable P and credit Cash & Bank P, raises the Loan
\* Receivable balance by P and lowers the Cash & Bank balance by P.
C4_DisbursementShiftsBalances ==
    [][(StepOf({"approveLoan"}) /\ lastOp'.ok) =>
        LET P == loans[lastOp'.input].principalAmount
            e == Len(journalEntries) + 1
            n == Len(journalEntryLines)
        IN /\ Len(journalEntries') = e
           /\ Len(journalEntryLines') = n + 2
           /\ journalEntryLines'[n + 1] =
                 [journalEntryId |-> e, accountId |-> LoanReceivable,
                  debitAmount |-> P, creditAmount |-> 0]
           /\ journalEntryLines'[n + 2] =
                 [journalEntryId |-> e, accountId |-> CashAndBank,
                  debitAmount |-> 0, creditAmount |-> P]
           /\ accounts'[LoanReceivable] = accounts[LoanReceivable] + P
           /\ accounts'[CashAndBank] = accounts[CashAndBank] - P]_vars

(***************************************************************************)
(* Properties of the amortization engine.                                  *)
(***************************************************************************)
\* the input contract of the engine (spec 4.1)
ValidTerms(p) ==
    /\ p.principal > 0
    /\ p.tenure >= 1
    /\ p.interestRate >= 0
    /\ p.interestType \in {"flat", "reducing"}
    /\ p.frequency \in {"monthly", "weekly"}

Returned == calcResult.state = "returned"

RECURSIVE SumPrincipal(_, _)
SumPrincipal(s, n) == IF n = 0 THEN 0 ELSE SumPrincipal(s, n - 1) + s[n].principalAmount

\* hundredths by which the principal components of the returned schedule
\* miss the principal
PrincipalGap ==
    Abs(100 * SumPrincipal(calcResult.schedule, Len(calcResult.schedule))
        - calcParams.principal)

C6_ScheduleComplete ==
    (Returned /\ ValidTerms(calcParams)) =>
        LET s == calcResult.schedule IN
        /\ Len(s) = calcParams.tenure
        /\ \A i \in 1..Len(s) : s[i].installmentNumber = i
        /\ \A i \in 1..(Len(s) - 1) : DayNumber(s[i].dueDate) < DayNumber(s[i + 1].dueDate)

\* a schedule of three or more installments starting on a 31st, whose first
\* due date overflows February into March
C6_Witness ==
    /\ Returned /\ ValidTerms(calcParams)
    /\ calcParams.tenure >= 3
    /\ calcParams.startDate = <<2024, 1, 31>>
    /\ calcResult.schedule[1].dueDate = <<2024, 3, 2>>
    /\ calcResult.schedule[2].dueDate = <<2024, 3, 31>>

\* C7 as stated: installment i is due i units after the start date, the
\* unit being one month for a monthly and one week (7 days) for a weekly
\* loan.
C7_FrequencySetsIncrement ==
    (Returned /\ ValidTerms(calcParams)) =>
        \A i \in 1..Len(calcResult.schedule) :
            /\ calcParams.frequency = "monthly" =>
                  calcResult.schedule[i].dueDate = SetMonthPlus(calcParams.startDate, i)
            /\ calcParams.frequency = "weekly" =>
                  DayNumber(calcResult.schedule[i].dueDate)
                      = DayNumber(calcParams.startDate) + 7 * i

\* the terms C8 says are rejected
RejectedTerms(p) ==
    \/ p.principal <= 0
    \/ p.tenure <= 0
    \/ p.interestType \notin {"flat", "reducing"}
    \/ p.frequency \notin {"monthly", "weekly"}

\* C8 as stated: a call on a non-positive principal, a tenure below 1 or an
\* unrecognized interest type or frequency is rejected and returns no
\* schedule.
C8_InvalidTermsRejected ==
    (calcResult.state # "none" /\ RejectedTerms(calcParams)) =>
        (calcResult.state = "rejected" /\ calcResult.schedule = << >>)

(***************************************************************************)
(* Properties of the penalty function.                                     *)
(***************************************************************************)
\* the last day of the grace period of the installment, as a day count
GraceEndDay == DayNumber(penInput.dueDate) + penInput.gracePeriod

\* C9: for a fixed installment the penalty is zero at every as-of date on
\* or before due date + grace period, the boundary day included, and it
\* never decreases as the as-of date advances.
C9_ZeroInGraceThenNonDecreasing ==
    /\ [](penalty.evaluated /\ DayOfTime(penalty.asOf) <= GraceEndDay => penalty.amount = 0)
    /\ [][penalty.evaluated /\ penalty'.evaluated => penalty'.amount >= penalty.amount]_vars

\* a nonzero EMI at a nonzero rate evaluated at noon of the boundary day
C9_Witness ==
    /\ penalty.evaluated
    /\ penInput.emiAmount > 0 /\ penInput.penaltyRate > 0 /\ penInput.gracePeriod > 0
    /\ penalty.asOf = GraceEndDay * HoursPerDay + HoursPerDay \div 2
    /\ penalty.amount = 0

\* the whole days from the end of the grace period to instant t: the k with
\* grace end + k days <= t < grace end + (k + 1) days
WholeDaysPast(t) ==
    CHOOSE k \in 0..(MaxClockDays + 1) :
        /\ (GraceEndDay + k) * HoursPerDay <= t
        /\ t < (GraceEndDay + k + 1) * HoursPerDay

\* C10: past the grace period the penalty is
\* round(emiAmount * dailyRatePercent * overdueDays / 100) with overdueDays
\* the whole days from the grace-period end to the as-of date; due
\* 2024-01-01, grace 5, rate 2, EMI 10000 on 2024-01-10 gives 4 days, 800.
C10_PenaltyFormula ==
    (penalty.evaluated /\ penalty.asOf > GraceEndDay * HoursPerDay) =>
        /\ penalty.amount =
              MathRound(<<penInput.emiAmount * penInput.penaltyRate
                              * WholeDaysPast(penalty.asOf), 10000>>)
        /\ (/\ penInput = [emiAmount |-> 1000000, dueDate |-> <<2024, 1, 1>>,
                           gracePeriod |-> 5, penaltyRate |-> 2]
            /\ DayOfTime(penalty.asOf) = DayNumber(<<2024, 1, 10>>))
           => (WholeDaysPast(penalty.asOf) = 4 /\ penalty.amount = 800)

\* the example of C10 evaluated in the afternoon of 2024-01-10
C10_Witness ==
    /\ penalty.evaluated
    /\ penInput = [emiAmount |-> 1000000, dueDate |-> <<2024, 1, 1>>,
                   gracePeriod |-> 5, penaltyRate |-> 2]
    /\ penalty.asOf = TimeOfDate(<<2024, 1, 10>>) + HoursPerDay \div 2
    /\ penalty.amount = 800


(***************************************************************************)
(* Properties of the batch penalty accrual.                                *)
(***************************************************************************)
\* the penalty, in hundredths, the penalty function gives row i at instant t
PenaltyDue(rows, i, t) ==
    100 * calculatePenalty(ParseFloat(rows[i].emiAmount), rows[i].dueDate,
                           loans[rows[i].loanId].gracePeriod, DefaultPenaltyRate, t)

PastDue(rows, i, t) == DayNumber(rows[i].dueDate) < DayOfTime(t)

AccrualRan == lastOp.op = "calculateAndUpdatePenalties"

\* C11: from any installment state, a second run of the batch accrual at
\* the same instant leaves every installment with the penalty, total and
\* status the first run left, and a row the run writes holds the penalty
\* of its own EMI amount and due date, not a sum with what it held.
C11_AccrualIdempotent ==
    LET once == PenaltiesUpdated(emiSchedule, loans, now)
        twice == PenaltiesUpdated(once, loans, now)
    IN \A i \in DOMAIN emiSchedule :
          /\ twice[i].penaltyAmount = once[i].penaltyAmount
          /\ twice[i].totalAmount = once[i].totalAmount
          /\ twice[i].status = once[i].status
          /\ once[i] # emiSchedule[i] =>
                once[i].penaltyAmount = PenaltyDue(emiSchedule, i, now)

\* a run that wrote nothing, at the instant whose penalty an overdue
\* installment already holds: the second of two runs at one instant
C11_Witness ==
    /\ AccrualRan
    /\ lastOp.input.asOf = now
    /\ lastOp.input.written = 0
    /\ \E i \in DOMAIN emiSchedule :
          /\ emiSchedule[i].status = "overdue"
          /\ emiSchedule[i].penaltyAmount > 0
          /\ emiSchedule[i].penaltyAmount = PenaltyDue(emiSchedule, i, now)

\* C12 as stated: after a run of the batch accrual every past-due
\* installment that was unpaid or overdue holds the penalty of the instant
\* of the run.
C12_RunRefreshesUnpaidAndOverdue ==
    [][StepOf({"calculateAndUpdatePenalties"}) =>
        \A i \in DOMAIN emiSchedule :
            (emiSchedule[i].status \in {"unpaid", "overdue"} /\ PastDue(emiSchedule, i, now))
                => emiSchedule'[i].penaltyAmount = PenaltyDue(emiSchedule, i, now)]_vars

\* C13: a run of the batch accrual turns a past-due unpaid installment
\* whose penalty is above zero into an overdue one holding that penalty and
\* a total of EMI amount + penalty, and leaves it as it is when the penalty
\* is zero.
C13_NonzeroPenaltyMarksOverdue ==
    [][StepOf({"calculateAndUpdatePenalties"}) =>
        \A i \in DOMAIN emiSchedule :
            (emiSchedule[i].status = "unpaid" /\ PastDue(emiSchedule, i, now)) =>
                LET due == PenaltyDue(emiSchedule, i, now) IN
                IF due > 0
                THEN /\ emiSchedule'[i].status = "overdue"
                     /\ emiSchedule'[i].penaltyAmount = due
                     /\ emiSchedule'[i].totalAmount = emiSchedule[i].emiAmount + due
                ELSE emiSchedule'[i] = emiSchedule[i]]_vars

\* a run has marked one installment overdue and left another, past due but
\* within its grace period, unpaid
C13_Witness ==
    /\ AccrualRan
    /\ lastOp.input.asOf = now
    /\ \E i, j \in DOMAIN emiSchedule :
          /\ emiSchedule[i].status = "overdue"
          /\ emiSchedule[i].totalAmount = emiSchedule[i].emiAmount + emiSchedule[i].penaltyAmount
          /\ emiSchedule[i].penaltyAmount > 0
          /\ emiSchedule[j].status = "unpaid"
          /\ PastDue(emiSchedule, j, now)
          /\ PenaltyDue(emiSchedule, j, now) = 0

\* C14 as stated: a run of the batch accrual gives a partially paid
\* installment whose penalty is above zero that penalty and a new total.
C14_PartialAccrues ==
    [][StepOf({"calculateAndUpdatePenalties"}) =>
        \A i \in DOMAIN emiSchedule :
            (emiSchedule[i].status = "partial" /\ PenaltyDue(emiSchedule, i, now) > 0) =>
                /\ emiSchedule'[i].penaltyAmount > 0
                /\ emiSchedule'[i].totalAmount # emiSchedule[i].totalAmount]_vars

\* C15: a run of the batch accrual leaves the penalty, the total and the
\* status of every paid installment as they were.
C15_PaidExcluded ==
    [][StepOf({"calculateAndUpdatePenalties"}) =>
        \A i \in DOMAIN emiSchedule :
            emiSchedule[i].status = "paid" =>
                /\ emiSchedule'[i].penaltyAmount = emiSchedule[i].penaltyAmount
                /\ emiSchedule'[i].totalAmount = emiSchedule[i].totalAmount
                /\ emiSchedule'[i].status = "paid"]_vars

\* a run wrote another installment and passed over a paid one that is past
\* its grace period, where the penalty function is above zero
C15_Witness ==
    /\ AccrualRan
    /\ lastOp.input.asOf = now
    /\ lastOp.input.written > 0
    /\ \E i \in DOMAIN emiSchedule :
          /\ emiSchedule[i].status = "paid"
          /\ emiSchedule[i].penaltyAmount = 0
          /\ PenaltyDue(emiSchedule, i, now) > 0


(***************************************************************************)
(* Properties of the payment posting.                                      *)
(***************************************************************************)
\* c hundredths is amount * part / whole rounded to a hundredth
IsShare(c, amount, part, whole) == 2 * Abs(c * whole - amount * part) <= whole

\* C16: a payment that is recorded stores three lines under its entry: a
\* debit of Cash & Bank of the full amount, a credit of Loan Receivable and
\* a credit of Interest Income of the amount times principal / EMI and
\* interest / EMI of the matched installment, or times 7/10 and 3/10 when
\* no installment is matched.
C16_PaymentSplitByInstallmentRatio ==
    [][(StepOf({"createPayment"}) /\ lastOp'.ok) =>
        LET payment == lastOp'.input
            e == Len(journalEntries) + 1
            n == Len(journalEntryLines)
            cash == journalEntryLines'[n + 1]
            principal == journalEntryLines'[n + 2]
            interest == journalEntryLines'[n + 3]
        IN /\ Len(journalEntryLines') = n + 3
           /\ cash = [journalEntryId |-> e, accountId |-> CashAndBank,
                      debitAmount |-> payment.amount, creditAmount |-> 0]
           /\ principal.journalEntryId = e /\ principal.accountId = LoanReceivable
           /\ principal.debitAmount = 0
           /\ interest.journalEntryId = e /\ interest.accountId = InterestIncome
           /\ interest.debitAmount = 0
           /\ IF payment.emiId = 0
              THEN /\ IsShare(principal.creditAmount, payment.amount, 7, 10)
                   /\ IsShare(interest.creditAmount, payment.amount, 3, 10)
              ELSE LET emi == emiSchedule[payment.emiId] IN
                   /\ IsShare(principal.creditAmount, payment.amount,
                              emi.principalAmount, emi.emiAmount)
                   /\ IsShare(interest.creditAmount, payment.amount,
                              emi.interestAmount, emi.emiAmount)]_vars

\* a payment on a matched installment was posted with a split that is not
\* the fallback, after a payment with no installment posted 7/10 and 3/10
C16_Witness ==
    /\ lastOp.op = "createPayment" /\ lastOp.ok
    /\ lastOp.input.emiId # 0
    /\ Len(payments) = 2 /\ payments[1].emiId = 0
    /\ Len(journalEntryLines) >= 6
    /\ LET n == Len(journalEntryLines) IN
          /\ journalEntryLines[n - 1].accountId = LoanReceivable
          /\ 10 * journalEntryLines[n - 1].creditAmount # 7 * lastOp.input.amount
          /\ 10 * journalEntryLines[n - 4].creditAmount = 7 * payments[1].amount


(***************************************************************************)
(* Properties of the loan rows and their installments.                     *)
(***************************************************************************)
InstallmentsOf(id) == {i \in DOMAIN emiSchedule : emiSchedule[i].loanId = id}

\* C19 as stated: installment numbers are unique within a loan, and a loan
\* that was approved (its schedule generated, status active) has exactly
\* tenure installments.
C19_InstallmentsOncePerLoan ==
    /\ \A i, j \in DOMAIN emiSchedule :
          (i # j /\ emiSchedule[i].loanId = emiSchedule[j].loanId)
              => emiSchedule[i].installmentNumber # emiSchedule[j].installmentNumber
    /\ \A id \in DOMAIN loans :
          (lastOp.op = "approveLoan" /\ lastOp.ok /\ lastOp.input = id)
              => Cardinality(InstallmentsOf(id)) = loans[id].tenure

TermsOf(loan) ==
    <<loan.principalAmount, loan.interestRate, loan.tenure, loan.interestType,
      loan.repaymentFrequency, loan.gracePeriod, loan.startDate>>

\* C20 as stated: no step changes the principal, rate, tenure, interest
\* type, frequency, grace period or start date of a loan that has been
\* approved.
C20_TermsImmutableOnceApproved ==
    [][\A id \in DOMAIN loans :
          loans[id].status \in {"approved", "active"} =>
              TermsOf(loans'[id]) = TermsOf(loans[id])]_vars


(***************************************************************************)
(* Properties of interleaved postings.                                     *)
(***************************************************************************)
\* debit - credit, in hundredths, of the first k lines of request r on
\* account a
RECURSIVE AppliedNet(_, _, _)
AppliedNet(r, a, k) ==
    IF k = 0 THEN 0
    ELSE LET line == HeldLines(r)[k] IN
         AppliedNet(r, a, k - 1)
            + (IF line.accountId = a
               THEN NumericRound(line.debitAmount) - NumericRound(line.creditAmount)
               ELSE 0)

RECURSIVE AppliedByAll(_, _)
AppliedByAll(a, n) ==
    IF n = 0 THEN 0
    ELSE AppliedByAll(a, n - 1) + AppliedNet(requests[n], a, requests[n].applied)

OpeningBalance(a) == IF a = CashAndBank THEN OpeningCash ELSE 0

\* C17: however the statements of the postings interleave, the balance of
\* every account is its opening balance plus debit - credit of every line
\* a posting has applied to it.
C17_NoLostBalanceUpdate ==
    \A a \in DOMAIN accounts :
        accounts[a] = OpeningBalance(a) + AppliedByAll(a, Len(requests))

\* two postings are both between their balance updates, each having
\* applied its Cash & Bank line
C17_Witness ==
    \E p, q \in DOMAIN requests :
        /\ p # q
        /\ At(p, "updateBalance") /\ At(q, "updateBalance")
        /\ requests[p].applied = 1 /\ requests[q].applied = 1
        /\ HeldLines(requests[p])[1].accountId = CashAndBank
        /\ HeldLines(requests[q])[1].accountId = CashAndBank
        /\ accounts[CashAndBank] # OpeningCash

\* C18 as stated: no two stored journal entries share an entry number, and
\* no two postings compute the same entry number.
C18_EntryNumbersUnique ==
    /\ \A e, f \in DOMAIN journalEntries :
          e # f => journalEntries[e].entryNumber # journalEntries[f].entryNumber
    /\ \A p, q \in DOMAIN requests :
          (p # q /\ requests[p].entryNumber # 0 /\ requests[q].entryNumber # 0)
              => requests[p].entryNumber # requests[q].entryNumber


(***************************************************************************)
(* The engine's figures: balances, EMI amounts and their components.       *)
(***************************************************************************)
\* the last installment of the returned schedule
LastItem == calcResult.schedule[Len(calcResult.schedule)]

\* C21: for valid terms under the reducing method the outstanding balance
\* after the final installment is zero, or within tenure units of zero.
C21_ReducingEndsNearZero ==
    (Returned /\ ValidTerms(calcParams) /\ calcParams.interestType = "reducing") =>
        /\ LastItem.outstandingBalance >= 0
        /\ LastItem.outstandingBalance <= calcParams.tenure

\* a reducing schedule of four installments at a positive rate whose first
\* balance is still more than four units and whose last is zero
C21_Witness ==
    /\ Returned /\ ValidTerms(calcParams)
    /\ calcParams.interestType = "reducing"
    /\ calcParams.interestRate > 0
    /\ calcParams.tenure = 4
    /\ calcResult.schedule[1].outstandingBalance > 4
    /\ LastItem.outstandingBalance = 0

\* (principal + principal * rate * tenure / 1200) / tenure rounded to a
\* whole unit, for a principal in hundredths
FlatEmi(p) ==
    MathRound(RMul(ParseFloat(p.principal),
                   RNorm(1200 + p.interestRate * p.tenure, 1200 * p.tenure)))

\* C22: for valid terms under the flat method every installment has the
\* same EMI amount, the rounded value of
\* (principal + principal * rate * tenure / 1200) / tenure.
C22_FlatEmiUniform ==
    (Returned /\ ValidTerms(calcParams) /\ calcParams.interestType = "flat") =>
        \A i \in 1..Len(calcResult.schedule) :
            calcResult.schedule[i].emiAmount = FlatEmi(calcParams)

\* principal 120000 at 12 % over 12 months: twelve installments of 11200,
\* which carry the total interest 14400
C22_Witness ==
    /\ Returned
    /\ calcParams = YearLoan
    /\ Len(calcResult.schedule) = 12
    /\ \A i \in 1..12 : calcResult.schedule[i].emiAmount = 11200
    /\ 12 * 11200 - 120000 = 14400

\* C23: in every returned schedule the outstanding balance never rises
\* from one installment to the next, is never negative, and is zero at the
\* last installment.
C23_BalanceFallsToZero ==
    (Returned /\ Len(calcResult.schedule) > 0) =>
        LET s == calcResult.schedule IN
        /\ \A i \in 1..Len(s) : s[i].outstandingBalance >= 0
        /\ \A i \in 1..(Len(s) - 1) : s[i + 1].outstandingBalance <= s[i].outstandingBalance
        /\ LastItem.outstandingBalance = 0

\* a flat schedule of three or more installments whose balance falls at
\* every installment and ends at zero
C23_Witness ==
    /\ Returned /\ ValidTerms(calcParams)
    /\ calcParams.interestType = "flat"
    /\ Len(calcResult.schedule) >= 3
    /\ \A i \in 1..(Len(calcResult.schedule) - 1) :
          calcResult.schedule[i + 1].outstandingBalance < calcResult.schedule[i].outstandingBalance
    /\ LastItem.outstandingBalance = 0

\* the stored balance before installment i, in whole units when the
\* principal is a whole amount
BalanceBefore(i) ==
    IF i = 1 THEN calcParams.principal \div 100
    ELSE calcResult.schedule[i - 1].outstandingBalance

\* C24: for valid terms with a whole-unit principal every stored balance is
\* the stored balance before it less the stored principal component,
\* floored at zero, starting from the principal; under the reducing method
\* the stored interest is the rounded product of the stored balance before
\* it and the monthly rate.
C24_BalancesFromRoundedComponents ==
    (Returned /\ ValidTerms(calcParams) /\ calcParams.principal % 100 = 0) =>
        LET s == calcResult.schedule IN
        \A i \in 1..Len(s) :
            /\ s[i].outstandingBalance =
                  IF BalanceBefore(i) - s[i].principalAmount > 0
                  THEN BalanceBefore(i) - s[i].principalAmount ELSE 0
            /\ calcParams.interestType = "reducing" =>
                  s[i].interestAmount =
                      MathRound(RMul(RInt(BalanceBefore(i)),
                                     RNorm(calcParams.interestRate, 1200)))

\* C28: for valid terms, flat or reducing, the stored EMI amount of every
\* installment is the sum of its stored principal and interest components.
C28_EmiIsPrincipalPlusInterest ==
    (Returned /\ ValidTerms(calcParams)) =>
        \A i \in 1..Len(calcResult.schedule) :
            LET e == calcResult.schedule[i]
            IN e.emiAmount = e.principalAmount + e.interestAmount


(***************************************************************************)
(* Loans and installments under the storage operations.                    *)
(***************************************************************************)
\* C25 as stated: every loan whose status is active has its agreement
\* signed.
C25_ActiveMeansAgreementSigned ==
    \A id \in DOMAIN loans :
        loans[id].status = "active" => loans[id].agreementSigned

\* the columns of an installment a payment may write, and those an accrual
\* run may write
PaymentColumns == {"paidAmount", "paidDate", "status"}
AccrualColumns == {"penaltyAmount", "totalAmount", "status"}

\* row after differs from row before in no column outside columns
OnlyChanged(before, after, columns) ==
    /\ DOMAIN after = DOMAIN before
    /\ \A f \in DOMAIN before : f \notin columns => after[f] = before[f]

\* C26: an accrual run changes only the penalty amount, total amount and
\* status of installments; a payment changes only the paid amount, paid
\* date and status of the installment it names, and no other installment.
C26_FramePreserved ==
    [][/\ StepOf({"calculateAndUpdatePenalties"}) =>
            /\ DOMAIN emiSchedule' = DOMAIN emiSchedule
            /\ \A i \in DOMAIN emiSchedule :
                  OnlyChanged(emiSchedule[i], emiSchedule'[i], AccrualColumns)
       /\ StepOf({"createPayment"}) =>
            /\ DOMAIN emiSchedule' = DOMAIN emiSchedule
            /\ \A i \in DOMAIN emiSchedule :
                  IF i = lastOp'.input.emiId
                  THEN OnlyChanged(emiSchedule[i], emiSchedule'[i], PaymentColumns)
                  ELSE emiSchedule'[i] = emiSchedule[i]]_vars

\* a payment was just recorded on an installment that carries a penalty,
\* next to another installment of the schedule
C26_Witness ==
    /\ lastOp.op = "createPayment" /\ lastOp.ok
    /\ lastOp.input.emiId # 0
    /\ Len(emiSchedule) > 1
    /\ emiSchedule[lastOp.input.emiId].penaltyAmount > 0
    /\ emiSchedule[lastOp.input.emiId].totalAmount
          = emiSchedule[lastOp.input.emiId].emiAmount
              + emiSchedule[lastOp.input.emiId].penaltyAmount
    /\ emiSchedule[lastOp.input.emiId].paidAmount > 0

\* the sum of the amounts of the first n payment rows that name
\* installment e
RECURSIVE PaidAgainst(_, _, _)
PaidAgainst(rows, e, n) ==
    IF n = 0 THEN 0
    ELSE PaidAgainst(rows, e, n - 1) + (IF rows[n].emiId = e THEN rows[n].amount ELSE 0)

\* C27: a payment of amount a on an installment adds a to its paid amount
\* and sets its status to paid exactly when the new paid amount is at least
\* the total amount, to partial otherwise; after any sequence of payments
\* made one after the other the paid amount of every installment is the sum
\* of the payments recorded against it.
C27_PaymentsAccumulate ==
    [][/\ \A e \in DOMAIN emiSchedule' :
             emiSchedule'[e].paidAmount = PaidAgainst(payments', e, Len(payments'))
       /\ (StepOf({"createPayment"}) /\ lastOp'.ok /\ lastOp'.input.emiId # 0) =>
             LET e == lastOp'.input.emiId IN
             /\ emiSchedule'[e].paidAmount = emiSchedule[e].paidAmount + lastOp'.input.amount
             /\ emiSchedule'[e].status =
                   IF emiSchedule'[e].paidAmount >= emiSchedule'[e].totalAmount
                   THEN "paid" ELSE "partial"]_vars

\* the second of two payments on one installment, the first smaller than
\* the total due, the two together at least the total: the installment is
\* paid and holds their sum
C27_Witness ==
    /\ lastOp.op = "createPayment" /\ lastOp.ok
    /\ Len(payments) = 2
    /\ payments[1].emiId # 0
    /\ payments[2].emiId = payments[1].emiId
    /\ payments[1].amount < emiSchedule[payments[1].emiId].totalAmount
    /\ emiSchedule[payments[1].emiId].paidAmount = payments[1].amount + payments[2].amount
    /\ emiSchedule[payments[1].emiId].status = "paid"

\* C30 as stated: a loan becomes approved or active only from pending; a
\* rejected loan never becomes active nor gets installments; an active
\* loan is never moved to rejected.
C30_LifecycleRespected ==
    [][\A id \in DOMAIN loans :
          /\ (loans'[id].status \in {"approved", "active"}
                 /\ loans[id].status # loans'[id].status)
                => loans[id].status = "pending"
          /\ loans[id].status = "rejected" =>
                /\ loans'[id].status # "active"
                /\ {i \in DOMAIN emiSchedule' : emiSchedule'[i].loanId = id}
                      = InstallmentsOf(id)
          /\ loans[id].status = "active" => loans'[id].status # "rejected"]_vars

(***************************************************************************)
(* Payments in progress together.                                          *)
(***************************************************************************)
\* a payment request holds or is about to read installment e
PaymentPending(e) ==
    \E p \in DOMAIN requests :
        /\ requests[p].op = "createPayment"
        /\ requests[p].arg.emiId = e
        /\ requests[p].pc \in {"selectEmi", "updateEmi"}

\* C29 as stated: however two payments on one installment interleave, once
\* no payment is between its insert and its installment update the paid
\* amount of the installment is the sum of the payments stored against it.
C29_NoLostPayment ==
    \A e \in DOMAIN emiSchedule :
        ~PaymentPending(e) =>
            emiSchedule[e].paidAmount = PaidAgainst(payments, e, Len(payments))

=============================================================================
